---------------------------- MODULE Spec2Model ----------------------------
(***************************************************************************)
(* The heuristic code-review engine of the server (analyzeCode and the     *)
(* functions it calls).  Source text, the lines of a split, regex matches  *)
(* and fix texts are sequences of one-character strings, so that the       *)
(* string methods and the regular expressions of the source are computed   *)
(* character by character.  Property keys (types, languages, messages) and *)
(* the opaque texts of suggestions and best practices are TLA+ strings.    *)
(***************************************************************************)
EXTENDS Integers, Sequences, FiniteSets, TLC

VARIABLES
    code,       \* the source text handed to the engine
    language,   \* the declared language
    result,     \* outcome of analyzeCode(code, language)
    bug,        \* a raw finding handed to generateFix
    fixed,      \* outcome of generateFix(bug, language)
    parts,      \* how the source text of a complexity call was put together
    complexity, \* outcome of calculateComplexity(code, language)
    log         \* first result seen for each (code, language) analysed

vars == <<code, language, result, bug, fixed, parts, complexity, log>>

---------------------------------------------------------------------------
(* Character classes of the regular expressions. *)

Lower ==
    {"a","b","c","d","e","f","g","h","i","j","k","l","m",
     "n","o","p","q","r","s","t","u","v","w","x","y","z"}

Upper ==
    {"A","B","C","D","E","F","G","H","I","J","K","L","M",
     "N","O","P","Q","R","S","T","U","V","W","X","Y","Z"}

Digit == {"0","1","2","3","4","5","6","7","8","9"}

\* \w
WordChar == Lower \cup Upper \cup Digit \cup {"_"}

\* [a-zA-Z_]
IdentStart == Lower \cup Upper \cup {"_"}

\* [a-zA-Z0-9]
AlphaNum == Lower \cup Upper \cup Digit

\* \s, and the characters String.prototype.trim strips
Whitespace == {" ", "\t", "\n", "\r"}

\* the characters the regex dot does not match
LineTerminator == {"\n", "\r"}

---------------------------------------------------------------------------
(* String methods. Positions are 1-based here, 0-based in the source.      *)

\* s has t at position i
MatchesAt(s, t, i) ==
    /\ i >= 1
    /\ i + Len(t) - 1 <= Len(s)
    /\ \A j \in 1..Len(t) : s[i + j - 1] = t[j]

\* s.indexOf(t, from): least position >= from holding t, 0 when there is none
indexOfFrom(s, t, from) ==
    LET hits == {i \in from..(Len(s) - Len(t) + 1) : MatchesAt(s, t, i)}
    IN  IF hits = {} THEN 0 ELSE CHOOSE i \in hits : \A k \in hits : i <= k

\* s.includes(t)
includes(s, t) == \E i \in 1..(Len(s) - Len(t) + 1) : MatchesAt(s, t, i)

\* s.includes(t, from)
includesFrom(s, t, from) == \E i \in from..(Len(s) - Len(t) + 1) : MatchesAt(s, t, i)

\* s.startsWith(t)
startsWith(s, t) == MatchesAt(s, t, 1)

\* s.endsWith(t)
endsWith(s, t) == Len(t) <= Len(s) /\ MatchesAt(s, t, Len(s) - Len(t) + 1)

\* s.trim()
trim(s) ==
    LET keep == {i \in 1..Len(s) : s[i] \notin Whitespace}
    IN  IF keep = {} THEN <<>>
        ELSE SubSeq(s, CHOOSE i \in keep : \A k \in keep : i <= k,
                       CHOOSE i \in keep : \A k \in keep : i >= k)

RECURSIVE splitFrom(_, _)
splitFrom(s, i) ==
    LET j == indexOfFrom(s, <<"\n">>, i)
    IN  IF j = 0 THEN <<SubSeq(s, i, Len(s))>>
        ELSE <<SubSeq(s, i, j - 1)>> \o splitFrom(s, j + 1)

\* the split, were the empty text to have no line at all
splitNonEmpty(s) == IF s = <<>> THEN <<>> ELSE splitFrom(s, 1)

\* s.split('\n')
split(s) == splitFrom(s, 1)

\* least element of a set of positions, 0 when it is empty
FirstOf(hits) ==
    IF hits = {} THEN 0 ELSE CHOOSE i \in hits : \A k \in hits : i <= k

\* lines.findIndex(line => needles.some(n => line.includes(n))) + 1: the
\* 1-based index of the first line holding one of the needles, 0 when no
\* line does (findIndex returns -1)
findIndexPlus1(lines, needles) ==
    FirstOf({i \in 1..Len(lines) : \E n \in needles : includes(lines[i], n)})

\* number of characters of s that are c: (s.match(/c/g) || []).length
CountChar(s, c) == Cardinality({i \in 1..Len(s) : s[i] = c})

\* end of the maximal run of characters of class starting at position i
\* (i - 1 when s[i] is not in class)
RECURSIVE RunEnd(_, _, _)
RunEnd(s, i, class) ==
    IF i <= Len(s) /\ s[i] \in class THEN RunEnd(s, i + 1, class) ELSE i - 1

---------------------------------------------------------------------------
(* Regular expressions.  A global match scans left to right and resumes    *)
(* after the end of each match.                                            *)

\* the alternative of alts (tried in order) that matches s at i, <<>> if none
AltAt(s, alts, i) ==
    LET hits == {k \in 1..Len(alts) : MatchesAt(s, alts[k], i)}
    IN  IF hits = {} THEN <<>> ELSE alts[FirstOf(hits)]

\* (s.match(/a1|a2|.../g) || []).length for literal alternatives
RECURSIVE CountAlternatives(_, _, _)
CountAlternatives(s, alts, i) ==
    IF i > Len(s) THEN 0
    ELSE LET a == AltAt(s, alts, i)
         IN  IF a = <<>> THEN CountAlternatives(s, alts, i + 1)
             ELSE 1 + CountAlternatives(s, alts, i + Len(a))

\* (s.match(/\([^)]*\)/g) || []).length from position i: an opening
\* parenthesis pairs with the next closing one, whatever lies between
RECURSIVE CountParenGroups(_, _)
CountParenGroups(s, i) ==
    LET open == indexOfFrom(s, <<"(">>, i)
        close == IF open = 0 THEN 0 ELSE indexOfFrom(s, <<")">>, open + 1)
    IN  IF close = 0 THEN 0 ELSE 1 + CountParenGroups(s, close + 1)

\* /kw\s+(\w+)/ at position i: the position of the last matched character,
\* 0 when it does not match
DeclarationEnd(s, kw, i) ==
    IF ~MatchesAt(s, kw, i) THEN 0
    ELSE LET ws == RunEnd(s, i + Len(kw), Whitespace)
             w  == RunEnd(s, ws + 1, WordChar)
         IN  IF ws >= i + Len(kw) /\ w >= ws + 1 THEN w ELSE 0

\* code.match(/var\s+(\w+)|let\s+(\w+)|const\s+(\w+)/g) || [] from position i
RECURSIVE MatchDeclarations(_, _)
MatchDeclarations(s, i) ==
    IF i > Len(s) THEN <<>>
    ELSE LET kws  == <<<<"v","a","r">>, <<"l","e","t">>, <<"c","o","n","s","t">>>>
             hits == {k \in 1..3 : DeclarationEnd(s, kws[k], i) > 0}
         IN  IF hits = {} THEN MatchDeclarations(s, i + 1)
             ELSE LET e == DeclarationEnd(s, kws[FirstOf(hits)], i)
                  IN  <<SubSeq(s, i, e)>> \o MatchDeclarations(s, e + 1)

\* code.match(/\b[a-zA-Z_]\w*\b/g) || [] from position i
RECURSIVE MatchIdentifiers(_, _)
MatchIdentifiers(s, i) ==
    IF i > Len(s) THEN <<>>
    ELSE IF /\ s[i] \in IdentStart
            /\ (i = 1 \/ s[i - 1] \notin WordChar)
         THEN LET e == RunEnd(s, i, WordChar)
              IN  <<SubSeq(s, i, e)>> \o MatchIdentifiers(s, e + 1)
         ELSE MatchIdentifiers(s, i + 1)

\* code.match(/[a-z][a-zA-Z0-9]*/g) || [] from position i
RECURSIVE MatchNames(_, _)
MatchNames(s, i) ==
    IF i > Len(s) THEN <<>>
    ELSE IF s[i] \in Lower
         THEN LET e == RunEnd(s, i + 1, AlphaNum)
              IN  <<SubSeq(s, i, e)>> \o MatchNames(s, e + 1)
         ELSE MatchNames(s, i + 1)

\* /kw.*kw/ at position i: the position of the last matched character, 0
\* when it does not match (the dot is greedy and stops at a line terminator)
NestedEnd(s, kw, i) ==
    IF ~MatchesAt(s, kw, i) THEN 0
    ELSE LET eol  == RunEnd(s, i + Len(kw), {s[k] : k \in 1..Len(s)} \ LineTerminator)
             hits == {j \in (i + Len(kw))..(eol - Len(kw) + 1) : MatchesAt(s, kw, j)}
         IN  IF hits = {} THEN 0
             ELSE (CHOOSE j \in hits : \A k \in hits : j >= k) + Len(kw) - 1

\* (code.match(/for.*for|while.*while/g) || []).length from position i
RECURSIVE CountNestedLoops(_, _)
CountNestedLoops(s, i) ==
    IF i > Len(s) THEN 0
    ELSE LET kws  == <<<<"f","o","r">>, <<"w","h","i","l","e">>>>
             hits == {k \in 1..2 : NestedEnd(s, kws[k], i) > 0}
         IN  IF hits = {} THEN CountNestedLoops(s, i + 1)
             ELSE 1 + CountNestedLoops(s, NestedEnd(s, kws[FirstOf(hits)], i) + 1)

\* line.match(/^\s*/)[0].length
LeadingWhitespace(line) == RunEnd(line, 1, Whitespace)

\* code.match(/\b\w+\s*\([^)]*$/g) || []: without the m flag $ is the end of
\* the text, so the one possible match runs from the first word that is
\* followed by an opening parenthesis with no closing one after it to the
\* end of the text
MatchUnclosedCalls(s) ==
    LET starts == {i \in 1..Len(s) :
                     /\ s[i] \in WordChar
                     /\ (i = 1 \/ s[i - 1] \notin WordChar)
                     /\ LET p == RunEnd(s, RunEnd(s, i, WordChar) + 1, Whitespace) + 1
                        IN  /\ p <= Len(s)
                            /\ s[p] = "("
                            /\ \A k \in (p + 1)..Len(s) : s[k] # ")"}
    IN  IF starts = {} THEN <<>> ELSE <<SubSeq(s, FirstOf(starts), Len(s))>>

\* code.match(/["'][^"']*$/g) || []: the last quote character and all that
\* follows it
MatchUnclosedQuotes(s) ==
    LET quotes == {i \in 1..Len(s) : s[i] \in {"\"", "'"}}
    IN  IF quotes = {} THEN <<>>
        ELSE <<SubSeq(s, CHOOSE i \in quotes : \A k \in quotes : i >= k, Len(s))>>

---------------------------------------------------------------------------
(* JavaScript values that take part in property lookups.                   *)

Undefined == [kind |-> "undefined", val |-> <<>>]

\* a string value; s is its sequence of characters
Str(s) == [kind |-> "string", val |-> s]

\* an array value
Arr(items) == [kind |-> "array", val |-> items]

\* an object literal; own maps its own property keys to values
Obj(own) == [kind |-> "object", val |-> own]

\* a function object
Fn(name) == [kind |-> "function", val |-> name]

\* the outcome of reading a property of undefined
TypeError == [kind |-> "TypeError", val |-> <<>>]

\* properties every object literal inherits from Object.prototype
ObjectPrototypeKeys ==
    {"constructor", "__proto__", "toString", "toLocaleString", "valueOf",
     "hasOwnProperty", "isPrototypeOf", "propertyIsEnumerable"}

\* the value of an inherited property
Inherited(key) ==
    IF key = "constructor" THEN Fn("Object")
    ELSE IF key = "__proto__" THEN Obj(<<>>)
    ELSE Fn(key)

\* v[key]
Get(v, key) ==
    IF v.kind \in {"undefined", "TypeError"} THEN TypeError
    ELSE IF v.kind = "object" /\ key \in DOMAIN v.val THEN v.val[key]
    ELSE IF key \in ObjectPrototypeKeys THEN
        (IF v.kind = "object" THEN Inherited(key)
         ELSE IF key = "constructor"
              THEN Fn(IF v.kind = "string" THEN "String"
                      ELSE IF v.kind = "array" THEN "Array" ELSE "Function")
              ELSE IF key = "__proto__" THEN Obj(<<>>) ELSE Fn(key))
    ELSE Undefined

\* v?.[key]
OptGet(v, key) == IF v.kind = "undefined" THEN Undefined ELSE Get(v, key)

\* the truthiness that || tests
Truthy(v) ==
    /\ v.kind \notin {"undefined", "TypeError"}
    /\ (v.kind = "string" => v.val # <<>>)

\* a || b
OrElse(a, b) == IF Truthy(a) THEN a ELSE b

---------------------------------------------------------------------------
(* The fix catalog of generateFix.                                         *)

Fix(before, after, explanation) ==
    Obj([before |-> Str(before), after |-> Str(after),
         explanation |-> Str(explanation)])

SyntaxFixes ==
    Obj([javascript |-> Obj(
            ("Missing semicolon" :> Fix(
                <<"l","e","t"," ","r","e","s","u","l","t"," ","="," ","5"," ","+"," ","3">>,
                <<"l","e","t"," ","r","e","s","u","l","t"," ","="," ","5"," ","+"," ","3",";">>,
                <<"A","d","d"," ","a"," ","s","e","m","i","c","o","l","o","n"," ","a","t"," ","t","h","e"," ","e","n","d"," ","o","f"," ","t","h","e"," ","s","t","a","t","e","m","e","n","t">>))
         @@ ("Unmatched curly braces" :> Fix(
                <<"i","f"," ","(","t","r","u","e",")"," ","{","\n"," "," "," "," ","c","o","n","s","o","l","e",".","l","o","g","(","\"","t","e","s","t","\"",")","\n">>,
                <<"i","f"," ","(","t","r","u","e",")"," ","{","\n"," "," "," "," ","c","o","n","s","o","l","e",".","l","o","g","(","\"","t","e","s","t","\"",")",";","\n","}">>,
                <<"E","n","s","u","r","e"," ","a","l","l"," ","o","p","e","n","i","n","g"," ","b","r","a","c","e","s"," ","h","a","v","e"," ","m","a","t","c","h","i","n","g"," ","c","l","o","s","i","n","g"," ","b","r","a","c","e","s">>))),
         python |-> Obj(
            ("Incorrect indentation" :> Fix(
                <<"d","e","f"," ","t","e","s","t","(",")",":","\n","p","r","i","n","t","(","\"","t","e","s","t","\"",")">>,
                <<"d","e","f"," ","t","e","s","t","(",")",":","\n"," "," "," "," ","p","r","i","n","t","(","\"","t","e","s","t","\"",")">>,
                <<"U","s","e"," ","4"," ","s","p","a","c","e","s"," ","f","o","r"," ","i","n","d","e","n","t","a","t","i","o","n"," ","i","n"," ","P","y","t","h","o","n">>))),
         java |-> Obj(
            ("Missing semicolon" :> Fix(
                <<"S","y","s","t","e","m",".","o","u","t",".","p","r","i","n","t","l","n","(","\"","H","e","l","l","o"," ","W","o","r","l","d","\"",")">>,
                <<"S","y","s","t","e","m",".","o","u","t",".","p","r","i","n","t","l","n","(","\"","H","e","l","l","o"," ","W","o","r","l","d","\"",")",";">>,
                <<"A","d","d"," ","a"," ","s","e","m","i","c","o","l","o","n"," ","a","t"," ","t","h","e"," ","e","n","d"," ","o","f"," ","t","h","e"," ","s","t","a","t","e","m","e","n","t">>))),
         cpp |-> Obj(
            ("Missing semicolon" :> Fix(
                <<"c","o","u","t"," ","<","<"," ","\"","H","e","l","l","o"," ","W","o","r","l","d","\"">>,
                <<"c","o","u","t"," ","<","<"," ","\"","H","e","l","l","o"," ","W","o","r","l","d","\"",";">>,
                <<"A","d","d"," ","a"," ","s","e","m","i","c","o","l","o","n"," ","a","t"," ","t","h","e"," ","e","n","d"," ","o","f"," ","t","h","e"," ","s","t","a","t","e","m","e","n","t">>)))])

RuntimeFixes ==
    Obj([javascript |-> Obj(
            ("Potential undefined variable" :> Fix(
                <<"c","o","n","s","o","l","e",".","l","o","g","(","m","y","V","a","r","i","a","b","l","e",")">>,
                <<"l","e","t"," ","m","y","V","a","r","i","a","b","l","e"," ","="," ","\"","v","a","l","u","e","\"",";","\n","c","o","n","s","o","l","e",".","l","o","g","(","m","y","V","a","r","i","a","b","l","e",")",";">>,
                <<"D","e","c","l","a","r","e"," ","v","a","r","i","a","b","l","e","s"," ","b","e","f","o","r","e"," ","u","s","i","n","g"," ","t","h","e","m">>))),
         python |-> Obj(
            ("Potential division by zero" :> Fix(
                <<"r","e","s","u","l","t"," ","="," ","n","u","m","b","e","r"," ","/"," ","d","i","v","i","s","o","r">>,
                <<"i","f"," ","d","i","v","i","s","o","r"," ","!","="," ","0",":","\n"," "," "," "," ","r","e","s","u","l","t"," ","="," ","n","u","m","b","e","r"," ","/"," ","d","i","v","i","s","o","r","\n","e","l","s","e",":","\n"," "," "," "," ","p","r","i","n","t","(","\"","E","r","r","o","r",":"," ","D","i","v","i","s","i","o","n"," ","b","y"," ","z","e","r","o","\"",")">>,
                <<"A","d","d"," ","a"," ","c","h","e","c","k"," ","f","o","r"," ","z","e","r","o"," ","b","e","f","o","r","e"," ","d","i","v","i","s","i","o","n">>))),
         java |-> Obj(
            ("Potential null pointer exception" :> Fix(
                <<"o","b","j","e","c","t",".","m","e","t","h","o","d","(",")">>,
                <<"i","f"," ","(","o","b","j","e","c","t"," ","!","="," ","n","u","l","l",")"," ","{","\n"," "," "," "," ","o","b","j","e","c","t",".","m","e","t","h","o","d","(",")",";","\n","}">>,
                <<"A","d","d"," ","n","u","l","l"," ","c","h","e","c","k"," ","b","e","f","o","r","e"," ","a","c","c","e","s","s","i","n","g"," ","o","b","j","e","c","t"," ","m","e","t","h","o","d","s">>))),
         cpp |-> Obj(
            ("Potential memory leak" :> Fix(
                <<"i","n","t","*"," ","p","t","r"," ","="," ","n","e","w"," ","i","n","t","(","5",")">>,
                <<"i","n","t","*"," ","p","t","r"," ","="," ","n","e","w"," ","i","n","t","(","5",")",";","\n","/","/"," ",".",".","."," ","u","s","e"," ","p","t","r"," ",".",".",".","\n","d","e","l","e","t","e"," ","p","t","r",";">>,
                <<"A","l","w","a","y","s"," ","f","r","e","e"," ","a","l","l","o","c","a","t","e","d"," ","m","e","m","o","r","y"," ","w","i","t","h"," ","d","e","l","e","t","e">>)))])

LogicalFixes ==
    Obj(("Potential infinite loop" :> Fix(
            <<"w","h","i","l","e","(","t","r","u","e",")"," ","{","\n"," "," "," "," ","/","/"," ","c","o","d","e","\n","}">>,
            <<"l","e","t"," ","c","o","n","d","i","t","i","o","n"," ","="," ","t","r","u","e",";","\n","w","h","i","l","e","(","c","o","n","d","i","t","i","o","n",")"," ","{","\n"," "," "," "," ","/","/"," ","c","o","d","e","\n"," "," "," "," ","c","o","n","d","i","t","i","o","n"," ","="," ","f","a","l","s","e",";"," ","/","/"," ","A","d","d"," ","t","e","r","m","i","n","a","t","i","o","n"," ","c","o","n","d","i","t","i","o","n","\n","}">>,
            <<"A","d","d"," ","a"," ","p","r","o","p","e","r"," ","t","e","r","m","i","n","a","t","i","o","n"," ","c","o","n","d","i","t","i","o","n"," ","t","o"," ","t","h","e"," ","l","o","o","p">>))
     @@ ("Unreachable code" :> Fix(
            <<"r","e","t","u","r","n"," ","v","a","l","u","e",";","\n","c","o","n","s","o","l","e",".","l","o","g","(","\"","T","h","i","s"," ","w","i","l","l"," ","n","e","v","e","r"," ","r","u","n","\"",")",";">>,
            <<"c","o","n","s","o","l","e",".","l","o","g","(","\"","T","h","i","s"," ","w","i","l","l"," ","r","u","n","\"",")",";","\n","r","e","t","u","r","n"," ","v","a","l","u","e",";">>,
            <<"M","o","v","e"," ","t","h","e"," ","r","e","t","u","r","n"," ","s","t","a","t","e","m","e","n","t"," ","t","o"," ","t","h","e"," ","e","n","d"," ","o","f"," ","t","h","e"," ","f","u","n","c","t","i","o","n">>)))

SecurityFixes ==
    Obj(("Potential SQL injection vulnerability" :> Fix(
            <<"q","u","e","r","y"," ","="," ","\"","S","E","L","E","C","T"," ","*"," ","F","R","O","M"," ","u","s","e","r","s"," ","W","H","E","R","E"," ","i","d"," ","="," ","\""," ","+"," ","u","s","e","r","I","n","p","u","t">>,
            <<"c","o","n","s","t"," ","q","u","e","r","y"," ","="," ","\"","S","E","L","E","C","T"," ","*"," ","F","R","O","M"," ","u","s","e","r","s"," ","W","H","E","R","E"," ","i","d"," ","="," ","?","\"",";","\n","c","o","n","s","t"," ","p","a","r","a","m","s"," ","="," ","[","u","s","e","r","I","n","p","u","t","]",";">>,
            <<"U","s","e"," ","p","a","r","a","m","e","t","e","r","i","z","e","d"," ","q","u","e","r","i","e","s"," ","t","o"," ","p","r","e","v","e","n","t"," ","S","Q","L"," ","i","n","j","e","c","t","i","o","n">>))
     @@ ("Potential XSS vulnerability" :> Fix(
            <<"e","l","e","m","e","n","t",".","i","n","n","e","r","H","T","M","L"," ","="," ","u","s","e","r","I","n","p","u","t">>,
            <<"e","l","e","m","e","n","t",".","t","e","x","t","C","o","n","t","e","n","t"," ","="," ","u","s","e","r","I","n","p","u","t",";">>,
            <<"U","s","e"," ","t","e","x","t","C","o","n","t","e","n","t"," ","i","n","s","t","e","a","d"," ","o","f"," ","i","n","n","e","r","H","T","M","L"," ","t","o"," ","p","r","e","v","e","n","t"," ","X","S","S"," ","a","t","t","a","c","k","s">>)))

fixes ==
    Obj([syntax |-> SyntaxFixes, runtime |-> RuntimeFixes,
         logical |-> LogicalFixes, security |-> SecurityFixes])

\* the generic fix used when the catalog has no entry
FallbackFix(b) ==
    Obj([before |-> Str(<<"O","r","i","g","i","n","a","l"," ","c","o","d","e">>), after |-> b.fix,
         explanation |-> b.fix])

\* fixes[bug.type]?.[language] || fixes[bug.type]
languageFixes(b, lang) ==
    OrElse(OptGet(Get(fixes, b.type), lang), Get(fixes, b.type))

\* ResolveFix as it would be without the generic fallback
ResolveFixNoFallback(b, lang) == OptGet(languageFixes(b, lang), b.message)

\* languageFixes?.[bug.message] || { before: 'Original code', ... }
ResolveFix(b, lang) ==
    OrElse(OptGet(languageFixes(b, lang), b.message), FallbackFix(b))

\* whether reading fix.before, fix.after, fix.explanation throws
generateFixThrows(b, lang) ==
    Get(ResolveFix(b, lang), "before").kind = "TypeError"

\* the finding generateFix returns: the raw finding with its fix replaced
generateFix(b, lang) ==
    LET fix == ResolveFix(b, lang)
    IN  [type |-> b.type, message |-> b.message, line |-> b.line,
         fix |-> [before |-> Get(fix, "before"),
                  after |-> Get(fix, "after"),
                  explanation |-> Get(fix, "explanation")]]

\* a raw finding, as the checkers build it
RawFinding(type, message, line, fix) ==
    [type |-> type, message |-> message, line |-> line, fix |-> Str(fix)]

\* the line of a finding: a 1-based number (0 when findIndex found nothing)
LineNumber(n) == [multiple |-> FALSE, n |-> n]

\* the line of a finding that is the text 'Multiple lines'
MultipleLines == [multiple |-> TRUE, n |-> 0]

---------------------------------------------------------------------------
(* The four checkers of analyzePotentialBugs.  Each builds its raw         *)
(* findings in the order the source pushes them; generateFix is applied to *)
(* each of them.                                                           *)

\* <<1, ..., n>>
Indices(n) == [i \in 1..n |-> i]

\* the raw findings of raw, each passed through generateFix
WithFixes(raw, lang) == [i \in 1..Len(raw) |-> generateFix(raw[i], lang)]

\* the test of a line, were class and function keywords of every language
LacksSemicolonAnyKeyword(line, keywords, prefixes) ==
    LET trimmedLine == trim(line)
    IN  /\ trimmedLine # <<>>
        /\ ~endsWith(trimmedLine, <<";">>)
        /\ ~endsWith(trimmedLine, <<"{">>)
        /\ ~endsWith(trimmedLine, <<"}">>)
        /\ \A k \in keywords \cup {<<"f","u","n","c","t","i","o","n">>, <<"c","l","a","s","s">>} :
               ~includes(trimmedLine, k)
        /\ \A p \in prefixes : ~startsWith(trimmedLine, p)

\* the test of the missing-semicolon rule on one line; keywords are the
\* substrings and prefixes the line starts that exempt it
LacksSemicolon(line, keywords, prefixes) ==
    LET trimmedLine == trim(line)
    IN  /\ trimmedLine # <<>>
        /\ ~endsWith(trimmedLine, <<";">>)
        /\ ~endsWith(trimmedLine, <<"{">>)
        /\ ~endsWith(trimmedLine, <<"}">>)
        /\ \A k \in keywords : ~includes(trimmedLine, k)
        /\ \A p \in prefixes : ~startsWith(trimmedLine, p)

\* one 'Missing semicolon' finding per line that fails the test
MissingSemicolons(lines, keywords, prefixes) ==
    LET Flagged(i) == LacksSemicolon(lines[i], keywords, prefixes)
        hits == SelectSeq(Indices(Len(lines)), Flagged)
    IN  [k \in 1..Len(hits) |->
            RawFinding("syntax", "Missing semicolon", LineNumber(hits[k]),
                       <<"A","d","d"," ","s","e","m","i","c","o","l","o","n"," ","a","t"," ","t","h","e"," ","e","n","d"," ","o","f"," ","t","h","e"," ","s","t","a","t","e","m","e","n","t">>)]

CommentPrefixes == {<<"/","/">>, <<"/","*">>, <<"*">>}

\* UnmatchedBraces as it would be with > in place of !==
UnmatchedBracesOpenOnly(c) ==
    IF CountChar(c, "{") > CountChar(c, "}")
    THEN <<RawFinding("syntax", "Unmatched curly braces", MultipleLines,
                      <<"C","h","e","c","k"," ","a","n","d"," ","m","a","t","c","h"," ","a","l","l"," ","o","p","e","n","i","n","g"," ","a","n","d"," ","c","l","o","s","i","n","g"," ","b","r","a","c","e","s">>)>>
    ELSE <<>>

\* 'Unmatched curly braces', once, when the counts of { and } differ
UnmatchedBraces(c) ==
    IF CountChar(c, "{") # CountChar(c, "}")
    THEN <<RawFinding("syntax", "Unmatched curly braces", MultipleLines,
                      <<"C","h","e","c","k"," ","a","n","d"," ","m","a","t","c","h"," ","a","l","l"," ","o","p","e","n","i","n","g"," ","a","n","d"," ","c","l","o","s","i","n","g"," ","b","r","a","c","e","s">>)>>
    ELSE <<>>

\* one finding per unclosed call the regex matches
UnclosedCalls(c) ==
    LET calls == MatchUnclosedCalls(c)
    IN  [k \in 1..Len(calls) |->
            RawFinding("syntax", "Missing closing parenthesis in function call",
                       LineNumber(findIndexPlus1(split(c), {calls[k]})),
                       <<"A","d","d"," ","c","l","o","s","i","n","g"," ","p","a","r","e","n","t","h","e","s","i","s"," ","t","o"," ","c","o","m","p","l","e","t","e"," ","t","h","e"," ","f","u","n","c","t","i","o","n"," ","c","a","l","l">>)]

\* one finding per unclosed quote the regex matches
UnclosedQuotes(c) ==
    LET quotes == MatchUnclosedQuotes(c)
    IN  [k \in 1..Len(quotes) |->
            RawFinding("syntax", "Unclosed string literal",
                       LineNumber(findIndexPlus1(split(c), {quotes[k]})),
                       <<"A","d","d"," ","c","l","o","s","i","n","g"," ","q","u","o","t","e"," ","t","o"," ","c","o","m","p","l","e","t","e"," ","t","h","e"," ","s","t","r","i","n","g">>)]

javascriptSyntax(c) ==
    MissingSemicolons(split(c),
                      {<<"i","f">>, <<"f","o","r">>, <<"w","h","i","l","e">>, <<"f","u","n","c","t","i","o","n">>},
                      CommentPrefixes \cup {<<"c","o","n","s","t">>, <<"l","e","t">>, <<"v","a","r">>})
    \o UnmatchedBraces(c) \o UnclosedCalls(c) \o UnclosedQuotes(c)

\* one 'Incorrect indentation' finding per line whose leading whitespace is
\* not a multiple of 4 characters long
IndentationErrors(lines) ==
    LET Flagged(i) == LeadingWhitespace(lines[i]) % 4 # 0
        hits == SelectSeq(Indices(Len(lines)), Flagged)
    IN  [k \in 1..Len(hits) |->
            RawFinding("syntax", "Incorrect indentation", LineNumber(hits[k]),
                       <<"U","s","e"," ","4"," ","s","p","a","c","e","s"," ","f","o","r"," ","i","n","d","e","n","t","a","t","i","o","n">>)]

controlStructures ==
    << [keyword |-> <<"i","f">>,    message |-> "Missing colon after if statement"],
       [keyword |-> <<"f","o","r">>,   message |-> "Missing colon after for statement"],
       [keyword |-> <<"w","h","i","l","e">>, message |-> "Missing colon after while statement"],
       [keyword |-> <<"d","e","f">>,   message |-> "Missing colon after def statement"],
       [keyword |-> <<"c","l","a","s","s">>, message |-> "Missing colon after class statement"],
       [keyword |-> <<"e","l","s","e">>,  message |-> "Missing colon after else statement"],
       [keyword |-> <<"e","l","i","f">>,  message |-> "Missing colon after elif statement"] >>

\* for each line, for each control structure in order: a finding when the
\* trimmed line starts with the keyword and does not end with a colon
MissingColons(lines) ==
    LET n == Len(controlStructures)
        LineOf(k) == ((k - 1) \div n) + 1
        StructureOf(k) == controlStructures[((k - 1) % n) + 1]
        Flagged(k) ==
            LET trimmedLine == trim(lines[LineOf(k)])
            IN  /\ startsWith(trimmedLine, StructureOf(k).keyword)
                /\ ~endsWith(trimmedLine, <<":">>)
        hits == SelectSeq(Indices(Len(lines) * n), Flagged)
    IN  [k \in 1..Len(hits) |->
            RawFinding("syntax", StructureOf(hits[k]).message,
                       LineNumber(LineOf(hits[k])),
                       <<"A","d","d"," ","c","o","l","o","n"," ","a","f","t","e","r"," ","t","h","e"," ","s","t","a","t","e","m","e","n","t">>)]

pythonSyntax(c) ==
    IndentationErrors(split(c)) \o MissingColons(split(c)) \o UnclosedCalls(c)

MissingPublicClass(c) ==
    IF ~includes(c, <<"p","u","b","l","i","c"," ","c","l","a","s","s">>)
    THEN <<RawFinding("syntax", "Missing public class declaration",
                      LineNumber(1), <<"A","d","d"," ","p","u","b","l","i","c"," ","c","l","a","s","s"," ","d","e","c","l","a","r","a","t","i","o","n">>)>>
    ELSE <<>>

MissingMain(c) ==
    IF ~includes(c, <<"p","u","b","l","i","c"," ","s","t","a","t","i","c"," ","v","o","i","d"," ","m","a","i","n">>)
    THEN <<RawFinding("syntax", "Missing main method", MultipleLines,
                      <<"A","d","d"," ","p","u","b","l","i","c"," ","s","t","a","t","i","c"," ","v","o","i","d"," ","m","a","i","n"," ","m","e","t","h","o","d">>)>>
    ELSE <<>>

javaSyntax(c) ==
    MissingSemicolons(split(c), {<<"i","f">>, <<"f","o","r">>, <<"w","h","i","l","e">>, <<"c","l","a","s","s">>},
                      CommentPrefixes)
    \o MissingPublicClass(c) \o MissingMain(c)

MissingIostream(c) ==
    IF includes(c, <<"c","o","u","t">>) /\ ~includes(c, <<"#","i","n","c","l","u","d","e"," ","<","i","o","s","t","r","e","a","m",">">>)
    THEN <<RawFinding("syntax", "Missing iostream include", LineNumber(1),
                      <<"A","d","d"," ","#","i","n","c","l","u","d","e"," ","<","i","o","s","t","r","e","a","m",">"," ","a","t"," ","t","h","e"," ","b","e","g","i","n","n","i","n","g"," ","o","f"," ","t","h","e"," ","f","i","l","e">>)>>
    ELSE <<>>

MissingNamespace(c) ==
    IF includes(c, <<"c","o","u","t">>) /\ ~includes(c, <<"u","s","i","n","g"," ","n","a","m","e","s","p","a","c","e"," ","s","t","d",";">>)
    THEN <<RawFinding("syntax", "Missing namespace declaration", MultipleLines,
                      <<"A","d","d"," ","u","s","i","n","g"," ","n","a","m","e","s","p","a","c","e"," ","s","t","d",";"," ","a","f","t","e","r"," ","i","n","c","l","u","d","e","s">>)>>
    ELSE <<>>

cppSyntax(c) ==
    MissingSemicolons(split(c), {<<"i","f">>, <<"f","o","r">>, <<"w","h","i","l","e">>, <<"c","l","a","s","s">>},
                      CommentPrefixes)
    \o MissingIostream(c) \o MissingNamespace(c)

\* the raw findings of checkSyntaxErrors: the switch on language
\* the switch on language, were the language compared without regard to case
SyntaxFindingsAnyCase(c, lang) ==
    CASE lang \in {"javascript", "JavaScript"} -> javascriptSyntax(c)
      [] lang = "python"     -> pythonSyntax(c)
      [] lang = "java"       -> javaSyntax(c)
      [] lang = "cpp"        -> cppSyntax(c)
      [] OTHER               -> <<>>

SyntaxFindings(c, lang) ==
    CASE lang = "javascript" -> javascriptSyntax(c)
      [] lang = "python"     -> pythonSyntax(c)
      [] lang = "java"       -> javaSyntax(c)
      [] lang = "cpp"        -> cppSyntax(c)
      [] OTHER               -> <<>>

checkSyntaxErrors(c, lang) == WithFixes(SyntaxFindings(c, lang), lang)

\* one 'Potential undefined variable' finding per identifier token that no
\* declaration match includes as a substring
UndefinedVariables(c) ==
    LET variables == MatchDeclarations(c, 1)
        usedVars  == MatchIdentifiers(c, 1)
        Flagged(i) == ~\E v \in 1..Len(variables) :
                          includes(variables[v], usedVars[i])
        hits == SelectSeq(Indices(Len(usedVars)), Flagged)
    IN  [k \in 1..Len(hits) |->
            RawFinding("runtime", "Potential undefined variable",
                       LineNumber(findIndexPlus1(split(c), {usedVars[hits[k]]})),
                       <<"D","e","c","l","a","r","e"," ","v","a","r","i","a","b","l","e"," ">> \o usedVars[hits[k]]
                           \o <<" ","b","e","f","o","r","e"," ","u","s","i","n","g"," ","i","t">>)]

DivisionByZero(c) ==
    IF includes(c, <<"/">>)
    THEN <<RawFinding("runtime", "Potential division by zero",
                      LineNumber(findIndexPlus1(split(c), {<<"/">>})),
                      <<"A","d","d"," ","c","h","e","c","k"," ","f","o","r"," ","z","e","r","o"," ","b","e","f","o","r","e"," ","d","i","v","i","s","i","o","n">>)>>
    ELSE <<>>

NullPointer(c) ==
    IF includes(c, <<".">>) /\ ~includes(c, <<"n","u","l","l">>)
    THEN <<RawFinding("runtime", "Potential null pointer exception",
                      LineNumber(findIndexPlus1(split(c), {<<".">>})),
                      <<"A","d","d"," ","n","u","l","l"," ","c","h","e","c","k"," ","b","e","f","o","r","e"," ","a","c","c","e","s","s","i","n","g"," ","o","b","j","e","c","t"," ","m","e","t","h","o","d","s">>)>>
    ELSE <<>>

MemoryLeak(c) ==
    IF includes(c, <<"n","e","w"," ">>) /\ ~includes(c, <<"d","e","l","e","t","e"," ">>)
    THEN <<RawFinding("runtime", "Potential memory leak",
                      LineNumber(findIndexPlus1(split(c), {<<"n","e","w"," ">>})),
                      <<"A","d","d"," ","d","e","l","e","t","e"," ","s","t","a","t","e","m","e","n","t"," ","t","o"," ","f","r","e","e"," ","a","l","l","o","c","a","t","e","d"," ","m","e","m","o","r","y">>)>>
    ELSE <<>>

\* the raw findings of checkRuntimeErrors: the switch on language
RuntimeFindings(c, lang) ==
    CASE lang = "javascript" -> UndefinedVariables(c)
      [] lang = "python"     -> DivisionByZero(c)
      [] lang = "java"       -> NullPointer(c)
      [] lang = "cpp"        -> MemoryLeak(c)
      [] OTHER               -> <<>>

checkRuntimeErrors(c, lang) == WithFixes(RuntimeFindings(c, lang), lang)

\* the substrings that mark an infinite loop
InfiniteLoopMarks == {<<"w","h","i","l","e","(","t","r","u","e",")">>, <<"f","o","r","(",";",";",")">>}

\* InfiniteLoop as it would be without the for(;;) test
InfiniteLoopWhileOnly(c) ==
    IF includes(c, <<"w","h","i","l","e","(","t","r","u","e",")">>)
    THEN <<RawFinding("logical", "Potential infinite loop",
                      LineNumber(findIndexPlus1(split(c), {<<"w","h","i","l","e","(","t","r","u","e",")">>})),
                      <<"A","d","d"," ","p","r","o","p","e","r"," ","l","o","o","p"," ","t","e","r","m","i","n","a","t","i","o","n"," ","c","o","n","d","i","t","i","o","n">>)>>
    ELSE <<>>

InfiniteLoop(c) ==
    IF \E m \in InfiniteLoopMarks : includes(c, m)
    THEN <<RawFinding("logical", "Potential infinite loop",
                      LineNumber(findIndexPlus1(split(c), InfiniteLoopMarks)),
                      <<"A","d","d"," ","p","r","o","p","e","r"," ","l","o","o","p"," ","t","e","r","m","i","n","a","t","i","o","n"," ","c","o","n","d","i","t","i","o","n">>)>>
    ELSE <<>>

\* the check, were the second search to start right after the first return
UnreachableCodeAdjacent(c) ==
    IF /\ includes(c, <<"r","e","t","u","r","n">>)
       /\ includesFrom(c, <<"r","e","t","u","r","n">>, indexOfFrom(c, <<"r","e","t","u","r","n">>, 1) + 6)
    THEN <<RawFinding("logical", "Unreachable code after return statement",
                      LineNumber(findIndexPlus1(split(c), {<<"r","e","t","u","r","n">>})),
                      <<"R","e","m","o","v","e"," ","c","o","d","e"," ","a","f","t","e","r"," ","r","e","t","u","r","n"," ","s","t","a","t","e","m","e","n","t"," ","o","r"," ","r","e","s","t","r","u","c","t","u","r","e"," ","l","o","g","i","c">>)>>
    ELSE <<>>

\* code.includes('return') && code.includes('return', code.indexOf('return') + 7);
\* positions are 1-based here, so the search resumes at indexOf + 7
UnreachableCode(c) ==
    IF /\ includes(c, <<"r","e","t","u","r","n">>)
       /\ includesFrom(c, <<"r","e","t","u","r","n">>, indexOfFrom(c, <<"r","e","t","u","r","n">>, 1) + 7)
    THEN <<RawFinding("logical", "Unreachable code after return statement",
                      LineNumber(findIndexPlus1(split(c), {<<"r","e","t","u","r","n">>})),
                      <<"R","e","m","o","v","e"," ","c","o","d","e"," ","a","f","t","e","r"," ","r","e","t","u","r","n"," ","s","t","a","t","e","m","e","n","t"," ","o","r"," ","r","e","s","t","r","u","c","t","u","r","e"," ","l","o","g","i","c">>)>>
    ELSE <<>>

\* the raw findings of checkLogicalErrors
LogicalFindings(c) == InfiniteLoop(c) \o UnreachableCode(c)

checkLogicalErrors(c, lang) == WithFixes(LogicalFindings(c), lang)

SqlMarks == {<<"S","E","L","E","C","T">>, <<"I","N","S","E","R","T">>, <<"U","P","D","A","T","E">>}

SqlInjection(c) ==
    IF \E m \in SqlMarks : includes(c, m)
    THEN <<RawFinding("security", "Potential SQL injection vulnerability",
                      LineNumber(findIndexPlus1(split(c), SqlMarks)),
                      <<"U","s","e"," ","p","a","r","a","m","e","t","e","r","i","z","e","d"," ","q","u","e","r","i","e","s"," ","o","r"," ","p","r","e","p","a","r","e","d"," ","s","t","a","t","e","m","e","n","t","s">>)>>
    ELSE <<>>

XssMarks == {<<"i","n","n","e","r","H","T","M","L">>, <<"d","o","c","u","m","e","n","t",".","w","r","i","t","e">>}

Xss(c) ==
    IF \E m \in XssMarks : includes(c, m)
    THEN <<RawFinding("security", "Potential XSS vulnerability",
                      LineNumber(findIndexPlus1(split(c), XssMarks)),
                      <<"U","s","e"," ","t","e","x","t","C","o","n","t","e","n","t"," ","i","n","s","t","e","a","d"," ","o","f"," ","i","n","n","e","r","H","T","M","L"," ","o","r"," ","s","a","n","i","t","i","z","e"," ","i","n","p","u","t">>)>>
    ELSE <<>>

\* the raw findings of checkSecurityIssues
SecurityFindings(c) == SqlInjection(c) \o Xss(c)

checkSecurityIssues(c, lang) == WithFixes(SecurityFindings(c), lang)

\* InitialBugs as it would be with the list declared outside the function:
\* the findings of the call before are still in it
LeftoverBugs ==
    IF result.status = "returned" THEN result.report.debugging.bugs ELSE <<>>

\* const bugs = []: every call starts from its own empty list
InitialBugs == <<>>

\* analyzePotentialBugs as it would be with the logical check run second
analyzePotentialBugsLogicalFirst(c, lang) ==
    InitialBugs \o checkSyntaxErrors(c, lang) \o checkLogicalErrors(c, lang)
    \o checkRuntimeErrors(c, lang) \o checkSecurityIssues(c, lang)

\* bugs.push(...syntaxErrors), then runtime, logical and security
analyzePotentialBugs(c, lang) ==
    InitialBugs \o checkSyntaxErrors(c, lang) \o checkRuntimeErrors(c, lang)
    \o checkLogicalErrors(c, lang) \o checkSecurityIssues(c, lang)

\* every raw finding the checkers hand to generateFix on (c, lang)
RawFindings(c, lang) ==
    SyntaxFindings(c, lang) \o RuntimeFindings(c, lang)
    \o LogicalFindings(c) \o SecurityFindings(c)

---------------------------------------------------------------------------
(* Metrics.                                                                *)

ControlKeywords ==
    <<<<"i","f">>, <<"e","l","s","e">>, <<"f","o","r">>, <<"w","h","i","l","e">>, <<"s","w","i","t","c","h">>, <<"c","a","t","c","h">>>>

HighAbove == 20

MediumAbove == 10

\* the sum calculateComplexity compares with its thresholds
ComplexityScore(c) ==
    CountAlternatives(c, ControlKeywords, 1) + CountChar(c, "{")
    + CountParenGroups(c, 1)

\* calculateComplexity as it would be with >= in place of >
calculateComplexityInclusive(c, lang) ==
    IF ComplexityScore(c) >= HighAbove THEN "High"
    ELSE IF ComplexityScore(c) >= MediumAbove THEN "Medium"
    ELSE "Low"

calculateComplexity(c, lang) ==
    IF ComplexityScore(c) > HighAbove THEN "High"
    ELSE IF ComplexityScore(c) > MediumAbove THEN "Medium"
    ELSE "Low"

RECURSIVE SumLengths(_, _)
SumLengths(lines, i) ==
    IF i > Len(lines) THEN 0 ELSE Len(lines[i]) + SumLengths(lines, i + 1)

LongLineLength == 80

LongAverage == 80

VeryLongAverage == 100

\* avgLineLength > a is sum > a * lines.length; longLines > lines.length * 0.2
\* is 5 * longLines > lines.length, and * 0.1 is 10 * longLines > lines.length
calculateMaintainability(c) ==
    LET lines == split(c)
        total == SumLengths(lines, 1)
        longLines == Cardinality({i \in 1..Len(lines) :
                                    Len(lines[i]) > LongLineLength})
    IN  IF total > VeryLongAverage * Len(lines) \/ 5 * longLines > Len(lines)
        THEN "Low"
        ELSE IF total > LongAverage * Len(lines)
                \/ 10 * longLines > Len(lines)
        THEN "Medium"
        ELSE "High"

DescriptiveAbove == 3

\* the grading, were a text at exactly 70% graded Low
calculateReadabilityInclusive(c) ==
    LET lines == split(c)
        indentationConsistency ==
            \A i \in 1..Len(lines) :
                \/ startsWith(lines[i], <<" "," ">>)
                \/ startsWith(lines[i], <<"\t">>)
                \/ trim(lines[i]) = <<>>
        variableNaming == MatchNames(c, 1)
        descriptiveNames ==
            Cardinality({i \in 1..Len(variableNaming) :
                           Len(variableNaming[i]) > DescriptiveAbove})
    IN  IF ~indentationConsistency
           \/ 10 * descriptiveNames <= 7 * Len(variableNaming)
        THEN "Low"
        ELSE IF 10 * descriptiveNames < 9 * Len(variableNaming)
        THEN "Medium"
        ELSE "High"

\* descriptiveNames < variableNaming.length * 0.7 is 10 * d < 7 * n, and
\* * 0.9 is 10 * d < 9 * n
calculateReadability(c) ==
    LET lines == split(c)
        indentationConsistency ==
            \A i \in 1..Len(lines) :
                \/ startsWith(lines[i], <<" "," ">>)
                \/ startsWith(lines[i], <<"\t">>)
                \/ trim(lines[i]) = <<>>
        variableNaming == MatchNames(c, 1)
        descriptiveNames ==
            Cardinality({i \in 1..Len(variableNaming) :
                           Len(variableNaming[i]) > DescriptiveAbove})
    IN  IF ~indentationConsistency
           \/ 10 * descriptiveNames < 7 * Len(variableNaming)
        THEN "Low"
        ELSE IF 10 * descriptiveNames < 9 * Len(variableNaming)
        THEN "Medium"
        ELSE "High"

\* loops > lines.length * 0.2 is 5 * loops > lines.length
calculateEfficiency(c) ==
    LET lines == split(c)
        loops == CountAlternatives(c, <<<<"f","o","r">>, <<"w","h","i","l","e">>>>, 1)
        nestedLoops == CountNestedLoops(c, 1)
    IN  IF nestedLoops > 0 THEN "Low"
        ELSE IF 5 * loops > Len(lines) THEN "Medium"
        ELSE "High"

---------------------------------------------------------------------------
(* Suggestions and best practices.                                         *)

Suggestion(message, before, after) ==
    [message |-> message, example |-> [before |-> before, after |-> after]]

\* a suggestion pushed when cond holds
When(cond, suggestion) == IF cond THEN <<suggestion>> ELSE <<>>

ShortBelow == 3

GeneralSuggestions(c) ==
    When(~includes(c, <<"/","/">>) /\ ~includes(c, <<"/","*">>),
         Suggestion("Add comments to explain complex logic and important sections",
            "function calculateTotal(items) {\n    return items.reduce((sum, item) => sum + item.price, 0);\n}",
            "// Calculate the total price of all items in the cart\nfunction calculateTotal(items) {\n    // Use reduce to sum up all item prices\n    return items.reduce((sum, item) => sum + item.price, 0);\n}"))
    \o
    When(~includes(c, <<"t","r","y">>) /\ ~includes(c, <<"c","a","t","c","h">>),
         Suggestion("Implement proper error handling with try-catch blocks",
            "function divide(a, b) {\n    return a / b;\n}",
            "function divide(a, b) {\n    try {\n        if (b === 0) throw new Error(\"Division by zero\");\n        return a / b;\n    } catch (error) {\n        console.error(\"Error:\", error.message);\n        return null;\n    }\n}"))
    \o
    When(includes(c, <<" "," ">>) /\ includes(c, <<"\t">>),
         Suggestion("Use consistent indentation (either spaces or tabs, not both)",
            "function example() {\n\tconsole.log(\"tab\");\n  console.log(\"spaces\");\n}",
            "function example() {\n    console.log(\"consistent\");\n    console.log(\"spaces\");\n}"))
    \o
    When(LET variableNames == MatchNames(c, 1)
         IN  \E i \in 1..Len(variableNames) : Len(variableNames[i]) < ShortBelow,
         Suggestion("Use more descriptive variable names (avoid single or double letter names)",
            "let x = 5;\nlet y = 10;\nlet z = x + y;",
            "let firstNumber = 5;\nlet secondNumber = 10;\nlet sum = firstNumber + secondNumber;"))

javascriptSuggestions(c) ==
    When(includes(c, <<"v","a","r"," ">>),
         Suggestion("Use const or let instead of var for better scoping",
            "var counter = 0;\nvar name = \"John\";",
            "const name = \"John\";\nlet counter = 0;"))
    \o
    When(includes(c, <<"f","u","n","c","t","i","o","n","(",")">>) \/ includes(c, <<"f","u","n","c","t","i","o","n"," ","(",")">>),
         Suggestion("Consider using arrow functions for better readability",
            "function multiply(a, b) {\n    return a * b;\n}",
            "const multiply = (a, b) => a * b;"))
    \o
    When(includes(c, <<"=","=">>) \/ includes(c, <<"!","=">>),
         Suggestion("Use strict equality operators (=== and !==) instead of loose equality",
            "if (value == \"5\") {\n    console.log(\"Equal\");\n}",
            "if (value === \"5\") {\n    console.log(\"Equal\");\n}"))

pythonSuggestions(c) ==
    When(includes(c, <<"p","r","i","n","t","(">>),
         Suggestion("Consider using logging instead of print statements",
            "print(\"Error occurred\")",
            "import logging\nlogging.error(\"Error occurred\")"))
    \o
    When(includes(c, <<"g","l","o","b","a","l"," ">>),
         Suggestion("Avoid using global variables, consider passing values as parameters",
            "global counter\ndef increment():\n    global counter\n    counter += 1",
            "def increment(counter):\n    return counter + 1"))

javaSuggestions(c) ==
    When(~includes(c, <<"p","u","b","l","i","c"," ","c","l","a","s","s">>),
         Suggestion("Add proper access modifiers to classes and methods",
            "class Calculator {\n    int add(int a, int b) {\n        return a + b;\n    }\n}",
            "public class Calculator {\n    public int add(int a, int b) {\n        return a + b;\n    }\n}"))

cppSuggestions(c) ==
    When(includes(c, <<"u","s","i","n","g"," ","n","a","m","e","s","p","a","c","e"," ","s","t","d",";">>),
         Suggestion("Avoid using namespace std, use specific using declarations instead",
            "using namespace std;\ncout << \"Hello\";",
            "using std::cout;\ncout << \"Hello\";"))

\* the switch on language of generateSuggestions
LanguageSuggestions(c, lang) ==
    CASE lang = "javascript" -> javascriptSuggestions(c)
      [] lang = "python"     -> pythonSuggestions(c)
      [] lang = "java"       -> javaSuggestions(c)
      [] lang = "cpp"        -> cppSuggestions(c)
      [] OTHER               -> <<>>

ClosingSuggestions(c) ==
    When(includes(c, <<"f","o","r">>) /\ includes(c, <<"f","o","r">>),
         Suggestion("Consider optimizing nested loops for better performance",
            "for (let i = 0; i < array.length; i++) {\n    for (let j = 0; j < array.length; j++) {\n        console.log(array[i][j]);\n    }\n}",
            "const length = array.length;\nfor (let i = 0; i < length; i++) {\n    for (let j = 0; j < length; j++) {\n        console.log(array[i][j]);\n    }\n}"))
    \o
    When(includes(c, <<"e","v","a","l","(">>) \/ includes(c, <<"F","u","n","c","t","i","o","n","(">>),
         Suggestion("Avoid using eval() or Function() constructor as they can lead to security vulnerabilities",
            "eval(userInput);",
            "// Use safer alternatives\nconst result = parseFloat(userInput);\nif (!isNaN(result)) {\n    // Process the number\n}"))

generateSuggestions(c, lang) ==
    GeneralSuggestions(c) \o LanguageSuggestions(c, lang) \o ClosingSuggestions(c)

practices ==
    Obj([javascript |-> Arr(<<
            "Use const for values that won't be reassigned",
            "Use arrow functions for callbacks",
            "Implement proper error handling",
            "Use template literals for string interpolation",
            "Follow the principle of least privilege">>),
         python |-> Arr(<<
            "Follow PEP 8 style guide",
            "Use virtual environments",
            "Implement proper exception handling",
            "Use type hints for better code clarity",
            "Write docstrings for functions and classes">>),
         java |-> Arr(<<
            "Follow Java naming conventions",
            "Use appropriate access modifiers",
            "Implement proper exception handling",
            "Use interfaces for abstraction",
            "Follow SOLID principles">>),
         cpp |-> Arr(<<
            "Use smart pointers instead of raw pointers",
            "Follow RAII principles",
            "Use const where appropriate",
            "Implement proper memory management",
            "Use modern C++ features">>)])

\* practices[language] || practices.javascript
generateBestPractices(lang) ==
    OrElse(Get(practices, lang), Get(practices, "javascript"))

---------------------------------------------------------------------------
(* The report.                                                             *)

CommentMarks == {<<"/","/">>, <<"/","*">>, <<"*">>, <<"#">>}

FunctionMarks == {<<"f","u","n","c","t","i","o","n">>, <<"d","e","f"," ">>, <<"c","l","a","s","s"," ">>}

\* the count, were a security finding counted under every type
CountTypeWithSecurity(bugs, type) ==
    Cardinality({i \in 1..Len(bugs) : bugs[i].type \in {type, "security"}})

\* the number of findings of one type
CountType(bugs, type) ==
    Cardinality({i \in 1..Len(bugs) : bugs[i].type = type})

\* whether analyzeCode throws instead of returning: the one place that can
\* is generateFix reading the properties of the fix it resolved
analyzeCodeThrows(c, lang) ==
    LET raw == RawFindings(c, lang)
    IN  \E i \in 1..Len(raw) : generateFixThrows(raw[i], lang)

analyzeCode(c, lang) ==
    LET lines == split(c)
        totalLines == Len(lines)
        commentLines ==
            Cardinality({i \in 1..Len(lines) :
                \E m \in CommentMarks : startsWith(trim(lines[i]), m)})
        functionCount ==
            Cardinality({i \in 1..Len(lines) :
                \E m \in FunctionMarks : includes(lines[i], m)})
        potentialBugs == analyzePotentialBugs(c, lang)
    IN  [codeAnalysis |->
            [language |-> lang,
             totalLines |-> totalLines,
             commentLines |-> commentLines,
             functionCount |-> functionCount,
             complexity |-> calculateComplexity(c, lang),
             \* (commentLines / totalLines) * 100, as a fraction
             codeToCommentRatio |->
                [numerator |-> commentLines * 100, denominator |-> totalLines]],
         suggestions |-> generateSuggestions(c, lang),
         bestPractices |-> generateBestPractices(lang),
         metrics |->
            [maintainability |-> calculateMaintainability(c),
             readability |-> calculateReadability(c),
             efficiency |-> calculateEfficiency(c)],
         debugging |->
            [bugs |-> potentialBugs,
             bugCount |-> Len(potentialBugs),
             bugTypes |->
                [syntax |-> CountType(potentialBugs, "syntax"),
                 runtime |-> CountType(potentialBugs, "runtime"),
                 logical |-> CountType(potentialBugs, "logical"),
                 security |-> CountType(potentialBugs, "security")]]]

---------------------------------------------------------------------------
(* Inputs.                                                                 *)

\* longest source text, in fragments
MaxFrags == 3

Fragments ==
    {<<"{">>, <<"}">>, <<"\n">>, <<"w","h","i","l","e","(","t","r","u","e",")">>, <<"f","o","r","(",";",";",")">>, <<"S","E","L","E","C","T">>,
     <<"r","e","t","u","r","n">>}

\* every concatenation of at most n fragments
RECURSIVE Concats(_)
Concats(n) ==
    IF n = 0 THEN {<<>>}
    ELSE LET shorter == Concats(n - 1)
         IN  shorter \cup {p \o f : p \in shorter, f \in Fragments}

\* the end-to-end examples
PythonExample == <<"d","e","f"," ","t","e","s","t","(",")",":","\n","p","r","i","n","t","(","\"","t","e","s","t","\"",")">>

LoopExample == <<"w","h","i","l","e","(","t","r","u","e",")"," ","{","\n"," ","c","o","n","s","o","l","e",".","l","o","g","(","1",")","\n","}">>

ReturnExample == <<"{","\n","r","e","t","u","r","n"," ","1",";","\n","r","e","t","u","r","n"," ","2",";","\n","}">>

\* a comment line before a statement, in the two comment styles
CommentExample == <<"/","/"," ","a","\n","b">>

HashExample == <<"#"," ","a","\n","b">>

Codes ==
    Concats(MaxFrags)
    \cup {PythonExample, LoopExample, ReturnExample, CommentExample, HashExample}

SupportedLanguages == {"javascript", "python", "java", "cpp"}

Languages ==
    SupportedLanguages
    \cup {"JavaScript", "constructor", "Unreachable code"}

NoResult == [status |-> "none", report |-> <<>>]

NoBug == RawFinding("", "", LineNumber(0), <<>>)

NoFinding == [status |-> "none", finding |-> <<>>]

NoParts == [keyword |-> 0, keywords |-> 0, braces |-> 0, groups |-> 0]

\* what a call of analyzeCode(c, lang) comes to
Outcome(c, lang) ==
    IF analyzeCodeThrows(c, lang)
    THEN [status |-> "threw", report |-> <<>>]
    ELSE [status |-> "returned", report |-> analyzeCode(c, lang)]

---------------------------------------------------------------------------
(* Spec: one call of the engine on any source text and language.           *)

Init ==
    /\ code \in Codes
    /\ language \in Languages
    /\ result = NoResult
    /\ bug = NoBug
    /\ fixed = NoFinding
    /\ parts = NoParts
    /\ complexity = ""
    /\ log = <<>>

AnalyzeCode ==
    /\ result.status = "none"
    /\ result' = Outcome(code, language)
    /\ UNCHANGED <<code, language, bug, fixed, parts, complexity, log>>

Next == AnalyzeCode

Spec == Init /\ [][Next]_vars

Returned == result.status = "returned"

Bugs == result.report.debugging.bugs

---------------------------------------------------------------------------
(* SpecFix: one call of generateFix on any raw finding, the invented ones  *)
(* included.                                                               *)

FixTypes == {"syntax", "runtime", "logical", "security", "style"}

FixMessages ==
    {"Missing semicolon", "Unmatched curly braces", "Incorrect indentation",
     "Potential undefined variable", "Potential infinite loop",
     "Unreachable code", "Potential XSS vulnerability",
     "Invented message", "before", "constructor"}

FixLanguages == Languages \cup {"Potential infinite loop"}

FixInit ==
    /\ bug \in {RawFinding(t, m, LineNumber(1), <<"R","e","w","r","i","t","e"," ","i","t">>) :
                  t \in FixTypes, m \in FixMessages}
    /\ language \in FixLanguages
    /\ fixed = NoFinding
    /\ code = <<>>
    /\ result = NoResult
    /\ parts = NoParts
    /\ complexity = ""
    /\ log = <<>>

GenerateFix ==
    /\ fixed.status = "none"
    /\ fixed' = IF generateFixThrows(bug, language)
                THEN [status |-> "threw", finding |-> <<>>]
                ELSE [status |-> "returned",
                      finding |-> generateFix(bug, language)]
    /\ UNCHANGED <<code, language, result, bug, parts, complexity, log>>

FixNext == GenerateFix

SpecFix == FixInit /\ [][FixNext]_vars

---------------------------------------------------------------------------
(* SpecComplexity: one call of calculateComplexity on a source text put    *)
(* together from a known number of control keywords, opening braces and    *)
(* parenthesized groups.                                                   *)

\* most keywords, most braces and most groups of a complexity input
MaxPart == 7

\* n copies of s
RECURSIVE Repeat(_, _)
Repeat(s, n) == IF n = 0 THEN <<>> ELSE s \o Repeat(s, n - 1)

\* a single line: a statement, keywords, braces, groups
ComplexityInput(p) ==
    <<"x"," ","="," ","1",";"," ">>
    \o Repeat(ControlKeywords[p.keyword] \o <<" ">>, p.keywords)
    \o Repeat(<<"{">>, p.braces)
    \o Repeat(<<"(","x",")">>, p.groups)

ComplexityInit ==
    /\ parts \in [keyword : 1..Len(ControlKeywords), keywords : 0..MaxPart,
                  braces : 0..MaxPart, groups : 0..MaxPart]
    /\ code = ComplexityInput(parts)
    /\ language \in {"javascript", "ruby"}
    /\ complexity = ""
    /\ result = NoResult
    /\ bug = NoBug
    /\ fixed = NoFinding
    /\ log = <<>>

CalculateComplexity ==
    /\ complexity = ""
    /\ complexity' = calculateComplexity(code, language)
    /\ UNCHANGED <<code, language, result, bug, fixed, parts, log>>

ComplexityNext == CalculateComplexity

SpecComplexity == ComplexityInit /\ [][ComplexityNext]_vars

---------------------------------------------------------------------------
(* SpecRepeat: calls of the engine one after another, on any of a few      *)
(* inputs in any order; log keeps, for each input, the result of its first *)
(* call and how many calls it has had.                                     *)

\* calls of one input that log counts
MaxCalls == 2

RepeatCodes == {<<"{","w","h","i","l","e","(","t","r","u","e",")","S","E","L","E","C","T">>, <<"x","\n","x">>}

RepeatLanguages == {"javascript", "ruby"}

RepeatInit ==
    /\ code = <<>>
    /\ language = "javascript"
    /\ result = NoResult
    /\ log = <<>>
    /\ bug = NoBug
    /\ fixed = NoFinding
    /\ parts = NoParts
    /\ complexity = ""

Call(c, lang) ==
    LET outcome == Outcome(c, lang)
        key == <<c, lang>>
    IN  /\ key \in DOMAIN log => log[key].calls < MaxCalls
        /\ code' = c
        /\ language' = lang
        /\ result' = outcome
        /\ log' = IF key \in DOMAIN log
                  THEN [log EXCEPT ![key].calls = @ + 1]
                  ELSE log @@ (key :> [first |-> outcome, calls |-> 1])
        /\ UNCHANGED <<bug, fixed, parts, complexity>>

RepeatNext == \E c \in RepeatCodes, lang \in RepeatLanguages : Call(c, lang)

SpecRepeat == RepeatInit /\ [][RepeatNext]_vars

---------------------------------------------------------------------------
(* Properties.                                                             *)

\* the number of findings of bugs with this type and message
CountMessage(bugs, type, message) ==
    Cardinality({i \in 1..Len(bugs) :
                    bugs[i].type = type /\ bugs[i].message = message})

BraceFindings == CountMessage(Bugs, "syntax", "Unmatched curly braces")

BracesDiffer == CountChar(code, "{") # CountChar(code, "}")

\* C1, as amended: for javascript source text the bug list holds exactly one
\* syntax finding 'Unmatched curly braces' when the numbers of { and } differ,
\* however much, and none when they are equal; for every other language it
\* holds none.
C1_UnmatchedBracesJavascript ==
    Returned =>
        BraceFindings = IF language = "javascript" /\ BracesDiffer THEN 1 ELSE 0

\* C1 witness: javascript text with an imbalance of two or more and one finding
C1_Witness ==
    /\ Returned
    /\ language = "javascript"
    /\ CountChar(code, "{") - CountChar(code, "}") >= 2
    /\ BraceFindings = 1

\* C1 as stated: the same for each of javascript, python, java and cpp
C1_Original ==
    Returned /\ language \in SupportedLanguages =>
        BraceFindings = IF BracesDiffer THEN 1 ELSE 0

\* a present, non-empty string
IsText(v) == v.kind = "string" /\ v.val # <<>>

\* v[key] when key is an own property of the object v, undefined otherwise
OwnGet(v, key) ==
    IF v.kind = "object" /\ key \in DOMAIN v.val THEN v.val[key] ELSE Undefined

\* a before/after/explanation triple of the catalog
IsFix(v) ==
    v.kind = "object" /\ DOMAIN v.val = {"before", "after", "explanation"}

\* catalog[type][language][message]
LanguageEntry(b, lang) ==
    OwnGet(OwnGet(OwnGet(fixes, b.type), lang), b.message)

\* catalog[type][message]
AgnosticEntry(b) == OwnGet(OwnGet(fixes, b.type), b.message)

\* the fields of a fix object, as a finding carries them
FixFields(v) ==
    [before |-> v.val.before, after |-> v.val.after,
     explanation |-> v.val.explanation]

\* C2 as stated: the fix of every finding generateFix returns has a before,
\* an after and an explanation that are non-empty strings, and for a raw
\* finding with no catalog entry before is 'Original code' and after and
\* explanation are the raw finding's fix text.
C2_Original ==
    fixed.status = "returned" =>
        /\ IsText(fixed.finding.fix.before)
        /\ IsText(fixed.finding.fix.after)
        /\ IsText(fixed.finding.fix.explanation)
        /\ (~IsFix(LanguageEntry(bug, language)) /\ ~IsFix(AgnosticEntry(bug))
              => fixed.finding.fix = FixFields(FallbackFix(bug)))

\* the ordered three-step lookup
ThreeStepFix(b, lang) ==
    IF IsFix(LanguageEntry(b, lang)) THEN LanguageEntry(b, lang)
    ELSE IF IsFix(AgnosticEntry(b)) THEN AgnosticEntry(b)
    ELSE FallbackFix(b)

\* C3 as stated: generateFix returns catalog[type][language][message], or
\* failing that catalog[type][message], or failing both the generic fallback,
\* whatever the language string is.
C3_Original ==
    Returned =>
        \A i \in 1..Len(Bugs) :
            Bugs[i].fix
              = FixFields(ThreeStepFix(RawFindings(code, language)[i], language))

\* a def header followed by a line that is not blank and not indented
DefThenUnindented(c) ==
    LET lines == split(c)
    IN  \E i \in 1..(Len(lines) - 1) :
            /\ startsWith(trim(lines[i]), <<"d","e","f"," ">>)
            /\ endsWith(trim(lines[i]), <<":">>)
            /\ trim(lines[i + 1]) # <<>>
            /\ LeadingWhitespace(lines[i + 1]) = 0

\* some line of s starts with four spaces
HasIndentedLine(s) ==
    \E i \in 1..Len(split(s)) : startsWith(split(s)[i], <<" "," "," "," ">>)

\* C4 as stated: for python text whose def header is followed by a line with
\* no indentation the bug list holds a syntax finding 'Incorrect indentation'
\* whose fix.after has a line indented by four spaces.
C4_Original ==
    Returned /\ language = "python" /\ DefThenUnindented(code) =>
        \E i \in 1..Len(Bugs) :
            /\ Bugs[i].type = "syntax"
            /\ Bugs[i].message = "Incorrect indentation"
            /\ IsText(Bugs[i].fix.after)
            /\ HasIndentedLine(Bugs[i].fix.after.val)

\* line holds while(true) or for(;;)
HasLoopMark(line) ==
    includes(line, <<"w","h","i","l","e","(","t","r","u","e",")">>) \/ includes(line, <<"f","o","r","(",";",";",")">>)

LoopFindings ==
    {i \in 1..Len(Bugs) : /\ Bugs[i].type = "logical"
                          /\ Bugs[i].message = "Potential infinite loop"}

\* C5: for every language, text that holds while(true) or for(;;) gets
\* exactly one logical finding 'Potential infinite loop', on the first line
\* (counted from 1) that holds either; text that holds neither gets none.
C5_InfiniteLoopOnce ==
    Returned =>
        IF HasLoopMark(code)
        THEN /\ Cardinality(LoopFindings) = 1
             /\ \A i \in LoopFindings :
                    /\ ~Bugs[i].line.multiple
                    /\ Bugs[i].line.n \in 1..Len(split(code))
                    /\ HasLoopMark(split(code)[Bugs[i].line.n])
                    /\ \A m \in 1..(Bugs[i].line.n - 1) :
                           ~HasLoopMark(split(code)[m])
        ELSE LoopFindings = {}

\* C5 witness: an unrecognized language, for(;;) on the second line only
C5_Witness ==
    /\ Returned
    /\ language \notin SupportedLanguages
    /\ includes(code, <<"f","o","r","(",";",";",")">>)
    /\ ~includes(code, <<"w","h","i","l","e","(","t","r","u","e",")">>)
    /\ \E i \in LoopFindings : Bugs[i].line = LineNumber(2)

\* C6 as stated: the best practices are the language's own list for
\* javascript, python, java and cpp, and the javascript list for every other
\* language string.
C6_Original ==
    Returned =>
        result.report.bestPractices =
            IF language \in SupportedLanguages THEN practices.val[language]
            ELSE practices.val.javascript

\* the sum, from how the text was put together
PartsSum == parts.keywords + parts.braces + parts.groups

\* C7: complexity is High iff the sum of keyword occurrences, opening braces
\* and parenthesized groups is above 20, Medium iff it is above 10 and at
\* most 20, Low iff it is at most 10; so it is Low for a single line with
\* none of them.
C7_ComplexityThresholds ==
    complexity # "" =>
        /\ complexity = "High" <=> PartsSum > 20
        /\ complexity = "Medium" <=> (PartsSum > 10 /\ PartsSum <= 20)
        /\ complexity = "Low" <=> PartsSum <= 10

\* C7 witness: a sum of exactly 20, made of all three parts, is Medium
C7_Witness ==
    /\ complexity = "Medium"
    /\ PartsSum = 20
    /\ parts.keywords > 0 /\ parts.braces > 0 /\ parts.groups > 0

C9_NeverThrows == result.status # "threw"

\* C9 witness: the empty text in an unrecognized language returned a report
C9_Witness ==
    /\ Returned
    /\ code = <<>>
    /\ language \notin SupportedLanguages
    /\ result.report.codeAnalysis.totalLines = 1

\* the place of a type in the order syntax, runtime, logical, security
TypeRank(type) ==
    CASE type = "syntax" -> 1 [] type = "runtime" -> 2
      [] type = "logical" -> 3 [] type = "security" -> 4 [] OTHER -> 0

\* C10: in the bug list no finding of a later type precedes a finding of an
\* earlier type, in the order syntax, runtime, logical, security, and the
\* list holds every finding the checkers made, repeated ones included.
C10_GroupedByType ==
    Returned =>
        /\ \A i, j \in 1..Len(Bugs) :
               i < j => TypeRank(Bugs[i].type) <= TypeRank(Bugs[j].type)
        /\ \A i \in 1..Len(Bugs) : TypeRank(Bugs[i].type) > 0
        /\ Len(Bugs) = Len(RawFindings(code, language))

\* C10 witness: findings of all four types, two of them equal
C10_Witness ==
    /\ Returned
    /\ {Bugs[i].type : i \in 1..Len(Bugs)}
         = {"syntax", "runtime", "logical", "security"}
    /\ \E i, j \in 1..Len(Bugs) : i < j /\ Bugs[i] = Bugs[j]


---------------------------------------------------------------------------
(* C11: language is matched case-sensitively. For every language other     *)
(* than exactly javascript, python, java or cpp the report has no syntax   *)
(* finding, no runtime finding and no language-specific suggestion: its    *)
(* findings are those of the logical and security checks, its suggestions  *)
(* the language-agnostic ones.                                             *)

LanguageSpecificMessages ==
    {"Use const or let instead of var for better scoping",
     "Consider using arrow functions for better readability",
     "Use strict equality operators (=== and !==) instead of loose equality",
     "Consider using logging instead of print statements",
     "Avoid using global variables, consider passing values as parameters",
     "Add proper access modifiers to classes and methods",
     "Avoid using namespace std, use specific using declarations instead"}

Suggestions == result.report.suggestions

BugTypes == result.report.debugging.bugTypes

C11_OtherLanguageAgnosticOnly ==
    (Returned /\ language \notin SupportedLanguages) =>
        /\ BugTypes.syntax = 0
        /\ BugTypes.runtime = 0
        /\ \A i \in 1..Len(Bugs) : Bugs[i].type \in {"logical", "security"}
        /\ Len(Bugs) = Len(LogicalFindings(code)) + Len(SecurityFindings(code))
        /\ \A i \in 1..Len(Suggestions) :
               Suggestions[i].message \notin LanguageSpecificMessages

\* C11 witness: "JavaScript" on a text that has syntax and runtime findings
\* and a language-specific suggestion under the supported spellings
C11_Witness ==
    /\ Returned
    /\ language = "JavaScript"
    /\ SyntaxFindings(code, "javascript") # <<>>
    /\ RuntimeFindings(code, "javascript") # <<>>
    /\ LanguageSuggestions(code, "java") # <<>>
    /\ Bugs # <<>>

---------------------------------------------------------------------------
(* SpecCheckers: one call of one of the checkers on a source text made of  *)
(* whole lines.                                                            *)

\* most lines of a source text
MaxLines == 2

SampleLines ==
    {<<>>, <<"x">>, <<"x",";">>, <<"c","l","a","s","s"," ","A">>, <<"f","u","n","c","t","i","o","n"," ","f">>, <<"f","o","r","m","a","t">>,
     <<"/","/"," ","x">>, <<"l","e","t"," ","x">>, <<" "," ","x"," ","{">>, <<"f","(">>, <<")">>, <<"e">>,
     <<"x"," ","}">>, <<"*"," ","x">>, <<"i","f"," ","(","x",")">>, <<" ">>}

\* every text of 1..n sample lines, joined by line feeds
RECURSIVE Texts(_)
Texts(n) ==
    IF n = 1 THEN SampleLines
    ELSE LET shorter == Texts(n - 1)
         IN  shorter \cup {t \o <<"\n">> \o l : t \in shorter, l \in SampleLines}

CheckersInit ==
    /\ code \in Texts(MaxLines)
    /\ language \in SupportedLanguages
    /\ result = NoResult
    /\ bug = NoBug
    /\ fixed = NoFinding
    /\ parts = NoParts
    /\ complexity = ""
    /\ log = <<>>

CheckSyntaxErrors ==
    /\ result.status = "none"
    /\ result' = [status |-> "syntax", report |-> checkSyntaxErrors(code, language)]
    /\ UNCHANGED <<code, language, bug, fixed, parts, complexity, log>>

CheckRuntimeErrors ==
    /\ result.status = "none"
    /\ result' = [status |-> "runtime", report |-> checkRuntimeErrors(code, language)]
    /\ UNCHANGED <<code, language, bug, fixed, parts, complexity, log>>

CheckLogicalErrors ==
    /\ result.status = "none"
    /\ result' = [status |-> "logical", report |-> checkLogicalErrors(code, language)]
    /\ UNCHANGED <<code, language, bug, fixed, parts, complexity, log>>

CheckersNext == CheckSyntaxErrors \/ CheckRuntimeErrors \/ CheckLogicalErrors

SpecCheckers == CheckersInit /\ [][CheckersNext]_vars

\* the findings a checker returned
Errors == IF result.status = "none" THEN <<>> ELSE result.report

---------------------------------------------------------------------------
(* C12: every finding's line is the 'Multiple lines' marker or the 1-based *)
(* index of a line of the split source, never 0 and never past the last    *)
(* line.                                                                   *)

C12_Original ==
    \A i \in 1..Len(Errors) :
        \/ Errors[i].line.multiple
        \/ Errors[i].line.n \in 1..Len(split(code))

---------------------------------------------------------------------------
(* SpecReview: one POST /api/review request, any JSON body.                *)

\* a string of the request body that the engine uses as a name; NoName is
\* the field left out
Name(text) == [kind |-> "string", val |-> text]

NoName == [kind |-> "undefined", val |-> ""]

BodyCodes ==
    {Undefined, Str(<<>>), Arr(<<>>)}
    \cup {Str(c) : c \in Fragments \cup {PythonExample, LoopExample}}

BodyLanguages ==
    {NoName, Name("")}
    \cup {Name(l) : l \in {"javascript", "python", "JavaScript", "ruby"}}

NoResponse == [status |-> 0, error |-> "", review |-> <<>>]

Response(status, error, review) ==
    [status |-> status, error |-> error, review |-> review]

\* the validation, were language tested before code
RequestErrorLanguageFirst(c, lang) ==
    IF lang.kind = "undefined" \/ lang.val = ""
    THEN "Programming language is required"
    ELSE IF ~Truthy(c) THEN "Code is required"
    ELSE ""

\* the 400 answer of the handler, "" when the body passes the validation
RequestError(c, lang) ==
    IF ~Truthy(c) THEN "Code is required"
    ELSE IF lang.kind = "undefined" \/ lang.val = ""
    THEN "Programming language is required"
    ELSE ""

\* analyzeCode(code, language) inside try / catch: code.split throws a
\* TypeError unless code is a string
Reviewed(c, lang) ==
    IF c.kind # "string"
    THEN Response(500, "code.split is not a function", <<>>)
    ELSE IF analyzeCodeThrows(c.val, lang.val)
    THEN Response(500, "Cannot read properties of undefined", <<>>)
    ELSE Response(200, "", analyzeCode(c.val, lang.val))

ReviewInit ==
    /\ code \in BodyCodes
    /\ language \in BodyLanguages
    /\ result = NoResponse
    /\ bug = NoBug
    /\ fixed = NoFinding
    /\ parts = NoParts
    /\ complexity = ""
    /\ log = <<>>

\* the handler; log is the list of calls of analyzeCode it made
PostReview ==
    /\ result = NoResponse
    /\ IF RequestError(code, language) # ""
       THEN /\ result' = Response(400, RequestError(code, language), <<>>)
            /\ log' = log
       ELSE /\ result' = Reviewed(code, language)
            /\ log' = Append(log, <<code, language>>)
    /\ UNCHANGED <<code, language, bug, fixed, parts, complexity>>

ReviewNext == PostReview

SpecReview == ReviewInit /\ [][ReviewNext]_vars

---------------------------------------------------------------------------
(* C13: the handler calls analyzeCode only when both code and language are *)
(* present. Absent or empty code is answered with 400 'Code is required',  *)
(* code without language with 400 'Programming language is required', the  *)
(* engine being called in neither case; an exception thrown during the     *)
(* analysis is answered with 500.                                          *)

CodePresent == code.kind # "undefined" /\ code # Str(<<>>)

LanguagePresent == language.kind # "undefined" /\ language.val # ""

C13_ValidatedBeforeAnalysis ==
    result # NoResponse =>
        /\ ~CodePresent =>
               /\ result = Response(400, "Code is required", <<>>)
               /\ log = <<>>
        /\ (CodePresent /\ ~LanguagePresent) =>
               /\ result = Response(400, "Programming language is required", <<>>)
               /\ log = <<>>
        /\ (CodePresent /\ LanguagePresent) =>
               /\ log = <<(<<code, language>>)>>
               /\ result.status \in {200, 500}
               /\ code.kind # "string" => result.status = 500
        /\ result.status = 200 => result.error = ""

\* C13 witness: a body without code and without language was refused
C13_Witness ==
    /\ result.status = 400
    /\ ~CodePresent
    /\ ~LanguagePresent


---------------------------------------------------------------------------
(* C14: the missing-semicolon rule of javascript, java and cpp. A line     *)
(* yields exactly one 'Missing semicolon' finding, with its 1-based index  *)
(* as line, iff its trimmed text is non-empty, does not end with ';', '{'  *)
(* or '}', contains none of the keywords of the language (if, for, while   *)
(* and function for javascript; if, for, while and class for java and cpp) *)
(* and starts with none of '//', '/*', '*' nor, for javascript, const, let *)
(* or var; every other line yields none.                                   *)

\* the 'Missing semicolon' findings whose line is i
SemicolonFindings(i) ==
    {k \in 1..Len(Errors) :
        /\ Errors[k].type = "syntax"
        /\ Errors[k].message = "Missing semicolon"
        /\ Errors[k].line = LineNumber(i)}

\* the line lacks a terminator and is neither blank nor a comment
Unterminated(line) ==
    /\ trim(line) # <<>>
    /\ \A e \in {<<";">>, <<"{">>, <<"}">>} : ~endsWith(trim(line), e)
    /\ \A p \in {<<"/","/">>, <<"/","*">>, <<"*">>} : ~startsWith(trim(line), p)

LoopOrBranch == {<<"i","f">>, <<"f","o","r">>, <<"w","h","i","l","e">>}

Declarators == {<<"c","o","n","s","t">>, <<"l","e","t">>, <<"v","a","r">>}

\* the rule with the keywords and prefixes of the language
ExpectedSemicolon(line, lang) ==
    /\ Unterminated(line)
    /\ \A k \in LoopOrBranch : ~includes(trim(line), k)
    /\ IF lang = "javascript"
       THEN /\ ~includes(trim(line), <<"f","u","n","c","t","i","o","n">>)
            /\ \A p \in Declarators : ~startsWith(trim(line), p)
       ELSE ~includes(trim(line), <<"c","l","a","s","s">>)

SemicolonChecked ==
    result.status = "syntax" /\ language \in {"javascript", "java", "cpp"}

C14_MissingSemicolonPerLanguage ==
    SemicolonChecked =>
        /\ \A i \in 1..Len(split(code)) :
               Cardinality(SemicolonFindings(i))
                 = IF ExpectedSemicolon(split(code)[i], language) THEN 1 ELSE 0
        /\ \A k \in 1..Len(Errors) :
               Errors[k].message = "Missing semicolon"
                 => Errors[k].line.n \in 1..Len(split(code))

\* C14 witness: java flagged a line that contains function and left alone
\* a line that contains class
C14_Witness ==
    /\ SemicolonChecked
    /\ language = "java"
    /\ \E i, j \in 1..Len(split(code)) :
           /\ includes(split(code)[i], <<"f","u","n","c","t","i","o","n">>)
           /\ Cardinality(SemicolonFindings(i)) = 1
           /\ includes(split(code)[j], <<"c","l","a","s","s">>)
           /\ SemicolonFindings(j) = {}

\* C14 as stated: the five keywords exempt a line in all three languages
C14_Original ==
    SemicolonChecked =>
        \A i \in 1..Len(split(code)) :
            Cardinality(SemicolonFindings(i))
              = IF /\ Unterminated(split(code)[i])
                   /\ \A k \in LoopOrBranch \cup {<<"f","u","n","c","t","i","o","n">>, <<"c","l","a","s","s">>} :
                          ~includes(trim(split(code)[i]), k)
                   /\ (language = "javascript" =>
                          \A p \in Declarators : ~startsWith(trim(split(code)[i]), p))
                THEN 1 ELSE 0

---------------------------------------------------------------------------
(* C15: for every language the logical checker yields exactly one          *)
(* 'Unreachable code after return statement' finding iff 'return' occurs   *)
(* again starting at least one character after the end of its first        *)
(* occurrence, located on the first line that contains 'return'; otherwise *)
(* it yields none.                                                         *)

Return == <<"r","e","t","u","r","n">>

\* where 'return' occurs in the code
ReturnAt == {i \in 1..Len(code) : MatchesAt(code, Return, i)}

FirstReturn == CHOOSE i \in ReturnAt : \A k \in ReturnAt : i <= k

\* a later occurrence with at least one character between it and the first
ReturnAgainApart ==
    /\ ReturnAt # {}
    /\ \E j \in ReturnAt : j >= FirstReturn + Len(Return) + 1

\* the number of line feeds before position i, plus one
LineOf(i) == 1 + Cardinality({k \in 1..(i - 1) : code[k] = "\n"})

UnreachableFindings ==
    {k \in 1..Len(Bugs) :
        Bugs[k].message = "Unreachable code after return statement"}

C15_UnreachableAfterGap ==
    Returned =>
        IF ReturnAgainApart
        THEN /\ Cardinality(UnreachableFindings) = 1
             /\ \A k \in UnreachableFindings :
                    /\ Bugs[k].type = "logical"
                    /\ Bugs[k].line = LineNumber(LineOf(FirstReturn))
        ELSE UnreachableFindings = {}

\* C15 witness: the first return on the second line, another one after it,
\* and one finding
C15_Witness ==
    /\ Returned
    /\ ReturnAgainApart
    /\ LineOf(FirstReturn) = 2
    /\ Cardinality(UnreachableFindings) = 1

\* C15 as stated: a second occurrence starting anywhere after the end of
\* the first
C15_Original ==
    Returned =>
        Cardinality(UnreachableFindings)
          = IF Cardinality(ReturnAt) >= 2 THEN 1 ELSE 0

---------------------------------------------------------------------------
(* C16: for javascript and python every line on which a call is opened and *)
(* not closed before the end of that line yields one 'Missing closing      *)
(* parenthesis in function call' finding, wherever the line is in the      *)
(* source.                                                                 *)

\* the lines that open a call and hold no ')' after it
OpenCallLines ==
    {i \in 1..Len(split(code)) : MatchUnclosedCalls(split(code)[i]) # <<>>}

ParenthesisFindings ==
    {k \in 1..Len(Errors) :
        Errors[k].message = "Missing closing parenthesis in function call"}

C16_Original ==
    (result.status = "syntax" /\ language \in {"javascript", "python"}) =>
        Cardinality(ParenthesisFindings) = Cardinality(OpenCallLines)

---------------------------------------------------------------------------
(* C17: for javascript the runtime checker yields one 'Potential undefined *)
(* variable' finding per occurrence of an identifier token that no var,    *)
(* let or const declaration of the source matches, and none for a token    *)
(* that a declaration declares, before or after the use.                   *)

\* the tokens of the declarations: their keywords and the names they declare
DeclaredTokens ==
    LET variables == MatchDeclarations(code, 1)
    IN  UNION {{MatchIdentifiers(variables[v], 1)[t] :
                   t \in 1..Len(MatchIdentifiers(variables[v], 1))} :
               v \in 1..Len(variables)}

\* the occurrences of tokens that are no token of a declaration
UndeclaredUses ==
    {i \in 1..Len(MatchIdentifiers(code, 1)) :
        MatchIdentifiers(code, 1)[i] \notin DeclaredTokens}

C17_Original ==
    (result.status = "runtime" /\ language = "javascript") =>
        /\ Len(Errors) = Cardinality(UndeclaredUses)
        /\ \A k \in 1..Len(Errors) :
               Errors[k].message = "Potential undefined variable"

---------------------------------------------------------------------------
(* SpecReadability: calculateReadability on texts with a known number of   *)
(* names and a known indentation.                                          *)

\* most names longer than 3 characters, most shorter ones
MaxLong == 9

MaxShort == 3

Indents == <<<<" "," ">>, <<"\t">>, <<" ">>>>

\* long lines each holding a 4-letter name and short lines each holding a
\* 3-letter name, all indented alike; then bare lines, not indented and
\* without names; then blank lines of one space
ReadabilityInput(p) ==
    Repeat(Indents[p.indent] \o <<"n","a","m","e","\n">>, p.long)
    \o Repeat(Indents[p.indent] \o <<"a","b","c","\n">>, p.short)
    \o Repeat(<<"1",";","\n">>, p.bare)
    \o Repeat(<<" ","\n">>, p.blank)

ReadabilityInit ==
    /\ parts \in [long : 0..MaxLong, short : 0..MaxShort,
                  indent : 1..Len(Indents), bare : 0..1, blank : 0..1]
    /\ code = ReadabilityInput(parts)
    /\ language = "javascript"
    /\ complexity = ""
    /\ result = NoResult
    /\ bug = NoBug
    /\ fixed = NoFinding
    /\ log = <<>>

CalculateReadability ==
    /\ result = NoResult
    /\ result' = [status |-> "readability", report |-> calculateReadability(code)]
    /\ UNCHANGED <<code, language, bug, fixed, parts, complexity, log>>

ReadabilityNext == CalculateReadability

SpecReadability == ReadabilityInit /\ [][ReadabilityNext]_vars

---------------------------------------------------------------------------
(* C18: readability follows the proportion p of names longer than 3        *)
(* characters among the lowercase-leading names: Low when p < 70%, Medium  *)
(* when 70% <= p < 90%, High otherwise; and any non-blank line that starts *)
(* with neither two spaces nor a tab makes it Low whatever p is.           *)

Names == parts.long + parts.short

\* every non-blank line starts with two spaces or a tab
Indented ==
    /\ parts.bare = 0
    /\ Names > 0 => parts.indent \in {1, 2}

C18_ReadabilityGrades ==
    result.status = "readability" =>
        result.report =
            IF ~Indented \/ 100 * parts.long < 70 * Names THEN "Low"
            ELSE IF 100 * parts.long < 90 * Names THEN "Medium"
            ELSE "High"

\* C18 witness: exactly 70% of ten names are long, behind tabs and with a
\* blank line, which makes Medium
C18_Witness ==
    /\ result.status = "readability"
    /\ parts.long = 7 /\ parts.short = 3
    /\ parts.indent = 2 /\ parts.blank = 1
    /\ result.report = "Medium"

---------------------------------------------------------------------------
(* C19: the suggestion 'Consider optimizing nested loops for better        *)
(* performance' is given only to source that holds at least two loop       *)
(* keywords; source with a single for does not get it.                     *)

\* the matches of /for|while/g in the code
LoopKeywords == CountAlternatives(code, <<<<"f","o","r">>, <<"w","h","i","l","e">>>>, 1)

NestedLoopSuggested ==
    \E i \in 1..Len(Suggestions) :
        Suggestions[i].message
          = "Consider optimizing nested loops for better performance"

C19_Original == (Returned /\ NestedLoopSuggested) => LoopKeywords >= 2

---------------------------------------------------------------------------
(* C20: in every report debugging.bugCount is the length of debugging.bugs *)
(* and the sum of the four counts of debugging.bugTypes; every finding has *)
(* one of the four types and is counted once, under its type.              *)

BugCount == result.report.debugging.bugCount

\* the findings of the list that have the type
OfType(type) == {i \in 1..Len(Bugs) : Bugs[i].type = type}

C20_BugCountIsSumOfTypes ==
    Returned =>
        /\ BugCount = Len(Bugs)
        /\ BugCount = BugTypes.syntax + BugTypes.runtime
                        + BugTypes.logical + BugTypes.security
        /\ \A i \in 1..Len(Bugs) : Bugs[i].type \in DOMAIN BugTypes
        /\ \A type \in DOMAIN BugTypes :
               BugTypes[type] = Cardinality(OfType(type))

\* C20 witness: a report with findings of all four types, three or more of
\* one of them
C20_Witness ==
    /\ Returned
    /\ \A type \in DOMAIN BugTypes : BugTypes[type] >= 1
    /\ \E type \in DOMAIN BugTypes : BugTypes[type] >= 3
    /\ BugCount >= 6

---------------------------------------------------------------------------
(* C21: for every code string, the empty one included, totalLines is the   *)
(* number of line feeds plus one and 0 <= commentLines <= totalLines, so   *)
(* codeToCommentRatio = commentLines / totalLines * 100 is never a         *)
(* division by zero, lies between 0 and 100 and is 0 for the empty source. *)

CodeAnalysis == result.report.codeAnalysis

C21_RatioIsFinite ==
    Returned =>
        /\ CodeAnalysis.totalLines = CountChar(code, "\n") + 1
        /\ CodeAnalysis.commentLines \in 0..CodeAnalysis.totalLines
        /\ CodeAnalysis.codeToCommentRatio.denominator = CodeAnalysis.totalLines
        /\ CodeAnalysis.codeToCommentRatio.denominator >= 1
        /\ CodeAnalysis.codeToCommentRatio.numerator
             = 100 * CodeAnalysis.commentLines
        /\ CodeAnalysis.codeToCommentRatio.numerator
             \in 0..(100 * CodeAnalysis.codeToCommentRatio.denominator)
        /\ code = <<>> => CodeAnalysis.codeToCommentRatio.numerator = 0

\* C21 witness: the report of the empty source, one line and ratio 0 / 1
C21_Witness ==
    /\ Returned
    /\ code = <<>>
    /\ CodeAnalysis.totalLines = 1
    /\ CodeAnalysis.codeToCommentRatio = [numerator |-> 0, denominator |-> 1]


---------------------------------------------------------------------------
(* C22: the messages of the logical and security findings are keys of the  *)
(* catalog: for javascript, python, java, cpp and an unrecognized language *)
(* every such finding gets the fix of the catalog, never the fallback      *)
(* whose before is 'Original code'.                                        *)

C22_Original ==
    (Returned /\ language \in SupportedLanguages \cup {"JavaScript"}) =>
        \A i \in 1..Len(Bugs) :
            Bugs[i].type \in {"logical", "security"}
              => Bugs[i].fix.before # Str(<<"O","r","i","g","i","n","a","l"," ","c","o","d","e">>)

---------------------------------------------------------------------------
(* C23: the suggestion 'Add comments to explain complex logic and          *)
(* important sections' agrees with the comment count of the same report:   *)
(* it is not given when codeAnalysis.commentLines > 0.                     *)

AddCommentsSuggested ==
    \E i \in 1..Len(Suggestions) :
        Suggestions[i].message
          = "Add comments to explain complex logic and important sections"

C23_Original ==
    (Returned /\ CodeAnalysis.commentLines > 0) => ~AddCommentsSuggested

---------------------------------------------------------------------------
(* SpecClient: the App component of the client, in its two variants. The   *)
(* component state (review, loading, error) is kept in result, the variant *)
(* in parts, the requests to /api/review that are in flight in log.        *)

Variants == {"App", "App-DESKTOP-7ROLCHI"}

\* most requests the browser keeps in flight
MaxRequests == 3

FormCodes == {<<>>, <<"x">>}

\* useState('') for review and error, useState(false) for loading
InitialState == [review |-> "", loading |-> FALSE, error |-> ""]

\* the submit button, were it never disabled
NeverDisabled(loading) == FALSE

\* disabled={loading}
Disabled(loading) == loading

\* what the server or the network answers to a request: the review, the
\* 400 answer of the validation, or no answer at all
Answers(request) ==
    {[settled |-> "rejected", review |-> "", error |-> "",
      message |-> "Network Error"]}
    \cup
    (IF RequestError(Str(request.code), Name(request.language)) # ""
     THEN {[settled |-> "rejected", review |-> "",
            error |-> RequestError(Str(request.code), Name(request.language)),
            message |-> "Request failed with status code 400"]}
     ELSE {[settled |-> "resolved", review |-> "review", error |-> "",
            message |-> ""]})

\* error.response?.data?.error || error.message || 'Error reviewing code. ...'
ErrorText(answer) ==
    IF answer.error # "" THEN answer.error
    ELSE IF answer.message # "" THEN answer.message
    ELSE "Error reviewing code. Please try again."

\* the state after the rest of handleSubmit has run on a settled request
Settled(state, variant, answer) ==
    IF answer.settled = "resolved"
    THEN [state EXCEPT !.review = answer.review, !.loading = FALSE]
    ELSE IF variant = "App"
    THEN [state EXCEPT !.review = "Error reviewing code. Please try again.",
                       !.loading = FALSE]
    ELSE [state EXCEPT !.error = ErrorText(answer), !.review = "",
                       !.loading = FALSE]

\* log without its i-th element
Without(requests, i) ==
    SubSeq(requests, 1, i - 1) \o SubSeq(requests, i + 1, Len(requests))

ClientInit ==
    /\ code = <<>>
    /\ language = "javascript"
    /\ result = InitialState
    /\ parts \in [variant : Variants]
    /\ log = <<>>
    /\ bug = NoBug
    /\ fixed = NoFinding
    /\ complexity = ""

\* onChange of the text field
SetCode ==
    /\ \E c \in FormCodes : code' = c
    /\ UNCHANGED <<language, result, bug, fixed, parts, complexity, log>>

\* onChange of the select
SetLanguage ==
    /\ \E l \in SupportedLanguages : language' = l
    /\ UNCHANGED <<code, result, bug, fixed, parts, complexity, log>>

\* handleSubmit up to its await: the form can be submitted while the
\* button is enabled
HandleSubmit ==
    /\ ~Disabled(result.loading)
    /\ Len(log) < MaxRequests
    /\ result' = [result EXCEPT !.loading = TRUE,
                                \* setError('') in App-DESKTOP-7ROLCHI; App
                                \* has no error state
                                !.error = IF parts.variant = "App" THEN @ ELSE ""]
    /\ log' = Append(log, [code |-> code, language |-> language,
                           answer |-> [settled |-> "pending", review |-> "",
                                       error |-> "", message |-> ""]])
    /\ UNCHANGED <<code, language, bug, fixed, parts, complexity>>

\* the promise of axios.post settles
Respond ==
    /\ \E i \in 1..Len(log) :
          /\ log[i].answer.settled = "pending"
          /\ \E a \in Answers(log[i]) : log' = [log EXCEPT ![i].answer = a]
    /\ UNCHANGED <<code, language, result, bug, fixed, parts, complexity>>

\* handleSubmit after its await, on a settled promise
Resume ==
    /\ \E i \in 1..Len(log) :
          /\ log[i].answer.settled # "pending"
          /\ result' = Settled(result, parts.variant, log[i].answer)
          /\ log' = Without(log, i)
    /\ UNCHANGED <<code, language, bug, fixed, parts, complexity>>

ClientNext == SetCode \/ SetLanguage \/ HandleSubmit \/ Respond \/ Resume

\* the rest of an async function runs once the awaited promise has settled
SpecClient == ClientInit /\ [][ClientNext]_vars /\ WF_vars(Resume)

---------------------------------------------------------------------------
(* C24: in both variants every submit sets loading, and once the request   *)
(* has succeeded or failed loading is reset; the submit button is disabled *)
(* exactly while loading is true, so at most one request is in flight and  *)
(* the form does not stay in the loading state after an answer arrived.    *)

InFlight == Len(log)

AnswerArrived == \E i \in 1..Len(log) : log[i].answer.settled # "pending"

OneRequestWhileLoading ==
    /\ InFlight <= 1
    /\ result.loading <=> InFlight = 1
    /\ Disabled(result.loading) <=> result.loading

C24_LoadingResets ==
    /\ []OneRequestWhileLoading
    /\ AnswerArrived ~> ~result.loading

\* C24 witness: a request failed and the form is out of the loading state
C24_Witness ==
    /\ ~result.loading
    /\ InFlight = 0
    /\ \/ result.error = "Code is required"
       \/ result.review = "Error reviewing code. Please try again."
=============================================================================
